---- MODULE Spec2Model ----
(***************************************************************************)
(* Model of src/game.py: the Streamlit digit guessing game.                *)
(*                                                                         *)
(* The script is re-executed from top to bottom on every user event, and   *)
(* st.rerun() aborts the current execution and starts a fresh one with no  *)
(* button pressed.  One action of the model is one user event: the         *)
(* execution it triggers and, when that execution calls st.rerun(), the    *)
(* execution that follows.  The variables are the keys of                  *)
(* st.session_state, plus history variables (the secret in the player's    *)
(* head, the answers accepted in the game, the largest budget in effect).  *)
(*                                                                         *)
(* The universe is scaled down: digits are 0..Base-1 and a number has      *)
(* CodeLen digits (10 and 4 in the program), so that the pool             *)
(* UNIQUE_POOL has Base!/(Base-CodeLen)! elements instead of 5040.         *)
(***************************************************************************)
EXTENDS Integers, Sequences, FiniteSets, TLC

\* ---------------------------------------------------------------- bounds
\* Number of digit values (the program: 10, digits 0..9).
Base == 4
\* Digits in a number (the program: 4).
CodeLen == 2
\* Pool size above which choose_best_guess samples (the program: 1000).
SampleThreshold == 6
\* Size of the random sample (the program: sample_limit=600).
SampleLimit == 4
\* Default of the "Max random trials" input (the program: 30).
DefaultMaxTrials == 2
\* Largest value of the "Max random trials" input (the program: 1000).
MaxTrialsLimit == 20
\* The trial counter is followed up to this value.
TrialsCap == 3
\* Length the log is cut to (the program: 300).
LogCap == 1
\* The presence-query index is followed up to this value.
MaxDetDigit == 4

\* ------------------------------------------------------- program constants
\* min_value of the "Max random trials" input.
MinTrials == 1

\* None, for a field that otherwise holds a string (a sequence of digits).
NoneStr == <<>>
\* None, for a field that otherwise holds a number >= 0.
NoneInt == -1

Min(a, b) == IF a < b THEN a ELSE b
Max(a, b) == IF a < b THEN b ELSE a

RECURSIVE Pow10(_)
Pow10(k) == IF k = 0 THEN 1 ELSE 10 * Pow10(k - 1)

\* Number of characters of str(n), n >= 0.
RECURSIVE NumChars(_)
NumChars(n) == IF n < 10 THEN 1 ELSE 1 + NumChars(n \div 10)

\* The decimal digits of n on w characters, most significant first.
Digits(n, w) == [i \in 1..w |-> (n \div Pow10(w - i)) % 10]

\* str(n): the decimal digits of n without padding.
Str(n) == Digits(n, NumChars(n))

\* format_guess(n): f"{n:04d}", zero-padded to CodeLen characters.
format_guess(n) == Digits(n, Max(CodeLen, NumChars(n)))

\* int(s) of a digit string.
RECURSIVE ToInt(_)
ToInt(s) == IF s = <<>> THEN 0
            ELSE 10 * ToInt(SubSeq(s, 1, Len(s) - 1)) + s[Len(s)]

\* set(s): the characters of a string.
CharSet(s) == {s[i] : i \in 1..Len(s)}

\* The elements of a list.
Range(q) == {q[i] : i \in 1..Len(q)}

\* all_unique_4digit_numbers(): the numbers below 10^CodeLen, in increasing
\* order, whose CodeLen digits are pairwise different (digits below Base).
all_unique_4digit_numbers ==
    LET all == [k \in 1..Pow10(CodeLen) |-> k - 1]
        ok(n) == LET s == Digits(n, CodeLen)
                 IN  /\ Cardinality(CharSet(s)) = CodeLen
                     /\ \A d \in CharSet(s) : d < Base
    IN  SelectSeq(all, ok)

UNIQUE_POOL == all_unique_4digit_numbers

\* A match count that looks at positions: the places where the two strings
\* carry the same character.
common_digit_count_by_position(a_str, b_str) ==
    Cardinality({i \in 1..Min(Len(a_str), Len(b_str)) : a_str[i] = b_str[i]})

\* common_digit_count(a_str, b_str) == len(set(a_str) & set(b_str))
common_digit_count(a_str, b_str) == Cardinality(CharSet(a_str) \cap CharSet(b_str))

\* A filter that counts the digits matching in place.
filter_candidates_by_position(cands, guess_str, reported_matches) ==
    LET keep(c) == common_digit_count_by_position(format_guess(c), guess_str)
                       = reported_matches
    IN  SelectSeq(cands, keep)

\* filter_candidates_by_feedback: the list comprehension keeps the order.
filter_candidates_by_feedback(cands, guess_str, reported_matches) ==
    LET keep(c) == common_digit_count(format_guess(c), guess_str) = reported_matches
    IN  SelectSeq(cands, keep)

\* The bucket counts of one guess: counts = [0]*5, then counts[m] += 1 for
\* each candidate string (entry m+1 of the list is counts[m]).
RECURSIVE Buckets(_, _, _, _)
Buckets(cands, g_str, i, counts) ==
    IF i > Len(cands) THEN counts
    ELSE LET m == common_digit_count(format_guess(cands[i]), g_str)
         IN  Buckets(cands, g_str, i + 1, [counts EXCEPT ![m + 1] = @ + 1])

\* sum(c*c for c in counts)
RECURSIVE SumSquares(_, _)
SumSquares(counts, k) ==
    IF k > Len(counts) THEN 0
    ELSE counts[k] * counts[k] + SumSquares(counts, k + 1)

\* The score of guess g against the candidates.
Score(g, cands) ==
    SumSquares(Buckets(cands, format_guess(g), 1, [m \in 1..(CodeLen + 1) |-> 0]), 1)

\* A loop that keeps the last guess of least score.
RECURSIVE ScanPool_keeps_last(_, _, _, _, _)
ScanPool_keeps_last(cands, eval_pool, i, best_score, best_guess) ==
    IF i > Len(eval_pool) THEN best_guess
    ELSE LET score == Score(eval_pool[i], cands)
         IN  IF best_score = NoneInt \/ score <= best_score
             THEN ScanPool_keeps_last(cands, eval_pool, i + 1, score, eval_pool[i])
             ELSE ScanPool_keeps_last(cands, eval_pool, i + 1, best_score, best_guess)

\* The loop of choose_best_guess over eval_pool: the first guess of least score.
\* best_score = NoneInt stands for math.inf, best_guess = NoneInt for None.
RECURSIVE ScanPool(_, _, _, _, _)
ScanPool(cands, eval_pool, i, best_score, best_guess) ==
    IF i > Len(eval_pool) THEN best_guess
    ELSE LET score == Score(eval_pool[i], cands)
         IN  IF best_score = NoneInt \/ score < best_score
             THEN ScanPool(cands, eval_pool, i + 1, score, eval_pool[i])
             ELSE ScanPool(cands, eval_pool, i + 1, best_score, best_guess)

\* What random.sample(pool, k) followed by the loop can return: g is the
\* first of least score in some sample of k distinct elements exactly when
\* at least k elements of the pool (g among them) score no less than g.
SampleOutcomes(cands, pool, k) ==
    LET scored == {<<x, Score(x, cands)>> : x \in Range(pool)}
    IN  {p[1] : p \in {p \in scored :
            Cardinality({q \in scored : q[2] >= p[2]}) >= k}}

\* choose_best_guess(candidates, pool, sample_limit): the set of values it
\* can return ({NoneInt} for None).
choose_best_guess(cands, pool, sample_limit) ==
    IF Len(cands) = 0 THEN {NoneInt}
    ELSE IF Len(pool) = 0 THEN Range(cands)
    ELSE IF Len(pool) <= SampleThreshold
         THEN {ScanPool(cands, pool, 1, NoneInt, NoneInt)}
         ELSE SampleOutcomes(cands, pool, Min(sample_limit, Len(pool)))

\* The arrangements of the characters of a string.
Perms(s) ==
    LET n == Len(s)
        bij == {f \in [1..n -> 1..n] : \A i, j \in 1..n : f[i] = f[j] => i = j}
    IN  {[i \in 1..n |-> s[f[i]]] : f \in bij}

\* A finite set of numbers as an ascending list.
RECURSIVE SortSet(_)
SortSet(S) ==
    IF S = {} THEN <<>>
    ELSE LET m == CHOOSE x \in S : \A y \in S : x <= y
         IN  <<m>> \o SortSet(S \ {m})

\* generate_candidates_from_multiset(recovered): every arrangement of the
\* characters as a number, duplicates removed, ascending.
generate_candidates_from_multiset(recovered) ==
    SortSet({ToInt(p) : p \in Perms(recovered)})

\* generate_candidates_from_multiset_unique(guess_str): the same codec.
generate_candidates_from_multiset_unique(guess_str) ==
    SortSet({ToInt(p) : p \in Perms(guess_str)})

\* add_log(msg): newest first, cut to LogCap entries.
add_log(logs, msg) == SubSeq(<<msg>> \o logs, 1, Min(LogCap, Len(logs) + 1))


\* ------------------------------------------------------------------ state
VARIABLES
    \* st.session_state
    stage, max_trials, trials, tried, current_guess, recovered_guess,
    candidates, lo, hi, logs, rand_match_selected, det_match_selected,
    digit_counts, det_digit, final_answer,
    \* history: the number the player thinks of (NoneInt: not followed)
    secret,
    \* history: match counts accepted in this game
    answers,
    \* history: the largest trial budget in effect during this game
    budget_hi,
    \* a call of filter_candidates_by_feedback: its arguments, its result,
    \* and whether it has returned
    fn_pool, fn_probe, fn_fb, fn_out, fn_done,
    \* a call of choose_best_guess: its arguments, the probes it evaluated,
    \* its result, and whether it has returned
    cb_candidates, cb_pool, cb_eval_pool, cb_out, cb_done

session == <<stage, max_trials, trials, tried, current_guess, recovered_guess,
             candidates, lo, hi, logs, rand_match_selected, det_match_selected,
             digit_counts, det_digit, final_answer>>
history == <<secret, answers, budget_hi>>
fncall == <<fn_pool, fn_probe, fn_fb, fn_out, fn_done,
            cb_candidates, cb_pool, cb_eval_pool, cb_out, cb_done>>
vars == <<session, history, fncall>>

\* st.session_state as one value.
SS == [stage |-> stage, max_trials |-> max_trials, trials |-> trials,
       tried |-> tried, current_guess |-> current_guess,
       recovered_guess |-> recovered_guess, candidates |-> candidates,
       lo |-> lo, hi |-> hi, logs |-> logs,
       rand_match_selected |-> rand_match_selected,
       det_match_selected |-> det_match_selected,
       digit_counts |-> digit_counts, det_digit |-> det_digit,
       final_answer |-> final_answer]

\* The session state left by an execution; the trial counter is followed
\* up to TrialsCap.
Commit(s) ==
    \E v \in {s} :
        /\ v.trials <= TrialsCap
        /\ stage' = v.stage
        /\ max_trials' = v.max_trials
        /\ trials' = v.trials
        /\ tried' = v.tried
        /\ current_guess' = v.current_guess
        /\ recovered_guess' = v.recovered_guess
        /\ candidates' = v.candidates
        /\ lo' = v.lo
        /\ hi' = v.hi
        /\ logs' = v.logs
        /\ rand_match_selected' = v.rand_match_selected
        /\ det_match_selected' = v.det_match_selected
        /\ digit_counts' = v.digit_counts
        /\ det_digit' = v.det_digit
        /\ final_answer' = v.final_answer
        /\ UNCHANGED fncall

\* A reset that leaves the log of the previous game in place.
reset_state_keeps_logs ==
    [stage |-> "intro", max_trials |-> DefaultMaxTrials, trials |-> 0,
     tried |-> {}, current_guess |-> NoneStr, recovered_guess |-> NoneStr,
     candidates |-> UNIQUE_POOL, lo |-> 0, hi |-> -1, logs |-> logs,
     rand_match_selected |-> NoneInt, det_match_selected |-> NoneInt,
     digit_counts |-> <<>>, det_digit |-> 0, final_answer |-> NoneInt]

\* reset_state(): every key is overwritten.
reset_state ==
    [stage |-> "intro", max_trials |-> DefaultMaxTrials, trials |-> 0,
     tried |-> {}, current_guess |-> NoneStr, recovered_guess |-> NoneStr,
     candidates |-> UNIQUE_POOL, lo |-> 0, hi |-> -1, logs |-> <<>>,
     rand_match_selected |-> NoneInt, det_match_selected |-> NoneInt,
     digit_counts |-> <<>>, det_digit |-> 0, final_answer |-> NoneInt]

\* The values the "Max random trials" input is given.
BudgetChoices == {MinTrials, DefaultMaxTrials, MaxTrialsLimit}

\* The match-count buttons 0..4 (0..CodeLen).
MatchButtons == 0..CodeLen

\* A guess decided over the entire UNIQUE_POOL instead of the candidates.
GuessOutcomes_from_full_pool(cands) ==
    IF Len(cands) = 1 THEN {cands[1]}
    ELSE choose_best_guess(cands, UNIQUE_POOL, SampleLimit)

\* Solver stage, "decide next guess": the values guess_int can take.
GuessOutcomes(cands) ==
    IF Len(cands) = 1 THEN {cands[1]}
    ELSE choose_best_guess(cands, cands, SampleLimit)

\* Solver stage, "set current guess if not set this round": the shown guess
\* is replaced, and a trial counted, whenever it differs from guess_int.
solver_render(s, guess_int) ==
    IF s.current_guess = NoneStr \/ s.current_guess # format_guess(guess_int)
    THEN [s EXCEPT !.current_guess = format_guess(guess_int),
                   !.trials = @ + 1]
    ELSE s

\* The solver block shows a guess (and its buttons) in this state.
ShowsGuess(s) == s.stage = "solver_stage" /\ Len(s.candidates) > 0

\* The draws an execution makes in state s (one dummy when it makes none).
GuessChoices(s) == IF ShowsGuess(s) THEN GuessOutcomes(s.candidates) ELSE {NoneInt}

\* An execution of the script with no button pressed: the budget is read
\* from the sidebar input w, and the block of the current stage is rendered
\* (only the solver block writes to the session state).
Rerun(s, w, g) ==
    LET s0 == [s EXCEPT !.max_trials = w]
    IN  IF ShowsGuess(s0) THEN solver_render(s0, g) ELSE s0


\* --------------------------------------------------------------- handlers
\* "Start Game": the game state is cleared (current_guess is not written)
\* and the stage follows the strategy radio.
start_game(s, strategy) ==
    [s EXCEPT !.trials = 0, !.tried = {},
              !.rand_match_selected = NoneInt, !.det_match_selected = NoneInt,
              !.candidates = UNIQUE_POOL,
              !.logs = add_log(<<>>, "started"),
              !.stage = IF strategy = "Solver" THEN "solver_stage"
                        ELSE "deterministic_stage"]

\* "Begin 10 queries": one unanswered entry per digit, in increasing order.
begin_queries(s) ==
    [s EXCEPT !.digit_counts = [k \in 1..Base |-> NoneInt],
              !.det_digit = 0,
              !.stage = "det_query"]

\* digit_counts[str(i)] = v.  The dict keeps insertion order and its keys
\* are str(0), str(1), ...: entry k+1 of the list is the value of key str(k).
\* A key that is not there yet is added at the end.
set_count(counts, i, v) ==
    IF i + 1 <= Len(counts) THEN [counts EXCEPT ![i + 1] = v]
    ELSE Append(counts, v)

\* ''.join(digits): the keys whose count is 1, in dict order, concatenated.
RECURSIVE join_present(_, _)
join_present(counts, k) ==
    IF k > Len(counts) THEN <<>>
    ELSE (IF counts[k] = 1 THEN Str(k - 1) ELSE <<>>) \o join_present(counts, k + 1)

\* The flagged digits joined in descending order.
join_digits_descending(counts) ==
    LET up == join_present(counts, 1)
    IN  [k \in 1..Len(up) |-> up[Len(up) + 1 - k]]

\* recovered = ''.join(digits)
join_digits(counts) == join_present(counts, 1)

\* Number of keys whose count is 1.
total_present(counts) == Cardinality({k \in 1..Len(counts) : counts[k] = 1})

\* The tally after the last query: the for/else over counts.items().
tally(s) ==
    LET counts == s.digit_counts
    IN  IF \E k \in 1..Len(counts) : counts[k] \notin {0, 1}
        THEN s
        ELSE IF total_present(counts) # CodeLen
        THEN s
        ELSE LET recovered == join_digits(counts)
                 cands == generate_candidates_from_multiset(recovered)
             IN  [s EXCEPT !.recovered_guess = recovered,
                           !.candidates = cands,
                           !.lo = 0,
                           !.hi = Len(cands) - 1,
                           !.stage = "ordering_stage",
                           !.logs = add_log(s.logs, "det_recovered")]

\* "Submit answer" of a presence query with a value selected.
det_submit(s) ==
    LET i == s.det_digit
        s1 == [s EXCEPT !.digit_counts = set_count(@, i, s.det_match_selected),
                        !.logs = add_log(@, "query"),
                        !.det_match_selected = NoneInt,
                        !.det_digit = i + 1]
    IN  IF s1.det_digit >= Base THEN tally(s1) ELSE s1

\* A trial limit that allows one more trial than the budget.
trial_limit_passed(s) == s.trials > s.max_trials

\* The check of the trial limit.
trial_limit_reached(s) == s.trials >= s.max_trials

\* "Submit match count" with a value selected, up to its st.rerun().
solver_submit(s) ==
    LET sel == s.rand_match_selected
        guess_str == s.current_guess
        s1 == [s EXCEPT !.logs = add_log(@, "guess"),
                        !.candidates = filter_candidates_by_feedback(@, guess_str, sel),
                        !.tried = @ \cup {ToInt(guess_str)},
                        !.rand_match_selected = NoneInt]
    IN  IF sel = CodeLen
        THEN LET cands == generate_candidates_from_multiset_unique(guess_str)
             IN  [s1 EXCEPT !.recovered_guess = guess_str,
                            !.candidates = cands,
                            !.lo = 0,
                            !.hi = Len(cands) - 1,
                            !.stage = "ordering_stage",
                            !.logs = add_log(s1.logs, "recovered")]
        ELSE IF trial_limit_reached(s1)
        THEN [s1 EXCEPT !.stage = "failed_random"]
        ELSE [s1 EXCEPT !.current_guess = NoneStr]

\* "Skip -> new logical guess", up to its st.rerun().
solver_skip(s) ==
    [s EXCEPT !.logs = add_log(@, "skipped"),
              !.current_guess = NoneStr,
              !.rand_match_selected = NoneInt]

\* A search that always shows the low end of the range.
Mid_low_end(s) == s.lo

\* An equal-answer that reports the low end of the range.
order_eq_reports_lo(s) ==
    [s EXCEPT !.logs = add_log(@, "order_found"),
              !.stage = "done",
              !.final_answer = s.candidates[s.lo + 1]]

\* A greater-answer that drops one element too many.
order_gt_skips_one(s) ==
    [s EXCEPT !.lo = ((s.lo + s.hi) \div 2) + 2, !.logs = add_log(@, "order_gt")]

\* mid = (lo + hi) // 2
Mid(s) == (s.lo + s.hi) \div 2

order_lt(s) == [s EXCEPT !.hi = Mid(s) - 1, !.logs = add_log(@, "order_lt")]
order_gt(s) == [s EXCEPT !.lo = Mid(s) + 1, !.logs = add_log(@, "order_gt")]
order_eq(s) == [s EXCEPT !.logs = add_log(@, "order_found"),
                         !.stage = "done",
                         !.final_answer = s.candidates[Mid(s) + 1]]


\* ---------------------------------------------------------------- actions
\* Each action is one user event, on the session state alone.

\* The sidebar: the budget input is given the value w (or any other widget
\* that has no handler is used): the script runs with no button pressed.
Rerender(w) ==
    \E g \in GuessChoices(SS) : Commit(Rerun(SS, w, g))

\* The sidebar's "Reset game": reset_state(), st.rerun().
ResetGame ==
    Commit(Rerun(reset_state, max_trials, NoneInt))

\* Intro: "Start Game".
StartGame(strategy) ==
    /\ stage = "intro"
    /\ \E s1 \in {start_game(SS, strategy)} :
           \E g \in GuessChoices(s1) : Commit(Rerun(s1, max_trials, g))

\* Deterministic stage: "Begin 10 queries".
BeginQueries ==
    /\ stage = "deterministic_stage"
    /\ Commit(Rerun(begin_queries(SS), max_trials, NoneInt))

\* Presence query: button "0" or "1".
DetSelect(v) ==
    /\ stage = "det_query"
    /\ det_digit <= MaxDetDigit
    /\ Commit([SS EXCEPT !.det_match_selected = v])

\* Presence query: "Submit answer" with nothing selected: a warning.
DetSubmitNone ==
    /\ stage = "det_query"
    /\ det_match_selected = NoneInt
    /\ Commit(SS)

\* Presence query: "Submit answer" with a value selected.
DetSubmit ==
    /\ stage = "det_query"
    /\ det_match_selected # NoneInt
    /\ det_digit <= MaxDetDigit
    /\ Commit(Rerun(det_submit(SS), max_trials, NoneInt))

\* Solver stage: a match-count button.  The guess is decided again before
\* the button is handled.
SolverSelect(idx) ==
    /\ ShowsGuess(SS)
    /\ \E g \in GuessChoices(SS) :
          Commit([solver_render(SS, g) EXCEPT !.rand_match_selected = idx])

\* Solver stage: "Submit match count" with nothing selected: a warning.
SolverSubmitNone ==
    /\ ShowsGuess(SS)
    /\ rand_match_selected = NoneInt
    /\ \E g \in GuessChoices(SS) : Commit(solver_render(SS, g))

\* Solver stage: "Submit match count" with a value selected.
SolverSubmit ==
    /\ ShowsGuess(SS)
    /\ rand_match_selected # NoneInt
    /\ \E s1 \in {solver_submit(solver_render(SS, g1)) : g1 \in GuessChoices(SS)} :
          \E g2 \in GuessChoices(s1) : Commit(Rerun(s1, max_trials, g2))

\* Solver stage: "Skip".
SolverSkip ==
    /\ ShowsGuess(SS)
    /\ \E s1 \in {solver_skip(solver_render(SS, g1)) : g1 \in GuessChoices(SS)} :
          \E g2 \in GuessChoices(s1) : Commit(Rerun(s1, max_trials, g2))

\* Failed: "Switch to deterministic 10-query method now".
SwitchToDeterministic ==
    /\ stage = "failed_random"
    /\ Commit(Rerun([SS EXCEPT !.stage = "deterministic_stage"], max_trials, NoneInt))

\* Failed: "Restart (solver)".
RestartSolver ==
    /\ stage = "failed_random"
    /\ Commit(Rerun(reset_state, max_trials, NoneInt))

\* A smaller-button that is also there when lo > hi.
OrderLt_shown_always ==
    /\ stage = "ordering_stage"
    /\ Commit(Rerun([SS EXCEPT !.hi = ((lo + hi) \div 2) - 1,
                               !.logs = add_log(@, "order_lt")],
                    max_trials, NoneInt))

\* Ordering stage: the three comparison buttons, shown while lo <= hi.
OrderLt ==
    /\ stage = "ordering_stage"
    /\ lo <= hi
    /\ Commit(Rerun(order_lt(SS), max_trials, NoneInt))

OrderEq ==
    /\ stage = "ordering_stage"
    /\ lo <= hi
    /\ Commit(Rerun(order_eq(SS), max_trials, NoneInt))

OrderGt ==
    /\ stage = "ordering_stage"
    /\ lo <= hi
    /\ Commit(Rerun(order_gt(SS), max_trials, NoneInt))

\* Done: "Play again".
PlayAgain ==
    /\ stage = "done"
    /\ Commit(Rerun(reset_state, max_trials, NoneInt))

\* ------------------------------------------------------------------- Spec
\* The session state after the first execution: reset_state(), then the
\* budget is read from the sidebar input, and the intro block is rendered.
InitSession ==
    /\ stage = "intro"
    /\ max_trials = DefaultMaxTrials
    /\ trials = 0
    /\ tried = {}
    /\ current_guess = NoneStr
    /\ recovered_guess = NoneStr
    /\ candidates = UNIQUE_POOL
    /\ lo = 0
    /\ hi = -1
    /\ logs = <<>>
    /\ rand_match_selected = NoneInt
    /\ det_match_selected = NoneInt
    /\ digit_counts = <<>>
    /\ det_digit = 0
    /\ final_answer = NoneInt

\* No call of choose_best_guess is followed.
NoChoose ==
    /\ cb_candidates = <<>>
    /\ cb_pool = <<>>
    /\ cb_eval_pool = <<>>
    /\ cb_out = NoneInt
    /\ cb_done = FALSE

\* No call of a function is followed.
NoCall ==
    /\ fn_pool = <<>>
    /\ fn_probe = NoneStr
    /\ fn_fb = 0
    /\ fn_out = <<>>
    /\ fn_done = FALSE
    /\ NoChoose

\* No history is followed.
NoHistory ==
    /\ secret = NoneInt
    /\ answers = 0
    /\ budget_hi = DefaultMaxTrials

Init == InitSession /\ NoHistory /\ NoCall

\* The program: every user event, in every stage.
Next ==
    \/ (\E w \in BudgetChoices : Rerender(w)) /\ UNCHANGED history
    \/ ResetGame /\ UNCHANGED history
    \/ (\E strategy \in {"Solver", "Deterministic"} : StartGame(strategy)) /\ UNCHANGED history
    \/ BeginQueries /\ UNCHANGED history
    \/ (\E v \in {0, 1} : DetSelect(v)) /\ UNCHANGED history
    \/ DetSubmitNone /\ UNCHANGED history
    \/ DetSubmit /\ UNCHANGED history
    \/ (\E idx \in MatchButtons : SolverSelect(idx)) /\ UNCHANGED history
    \/ SolverSubmitNone /\ UNCHANGED history
    \/ SolverSubmit /\ UNCHANGED history
    \/ SolverSkip /\ UNCHANGED history
    \/ SwitchToDeterministic /\ UNCHANGED history
    \/ RestartSolver /\ UNCHANGED history
    \/ OrderLt /\ UNCHANGED history
    \/ OrderEq /\ UNCHANGED history
    \/ OrderGt /\ UNCHANGED history
    \/ PlayAgain /\ UNCHANGED history

Spec == Init /\ [][Next]_vars


\* ------------------------------------------- the solver game, with history
\* The events of a game of the solver strategy, with the number of accepted
\* answers and the largest budget in effect written down.

\* A new game begins: the history of the previous one is dropped.
NewGame == answers' = 0 /\ budget_hi' = max_trials' /\ UNCHANGED secret

\* The largest budget in effect so far.
SeenBudget == budget_hi' = Max(budget_hi, max_trials') /\ UNCHANGED secret

GRerender(w) == Rerender(w) /\ SeenBudget /\ UNCHANGED answers

GResetGame == ResetGame /\ NewGame

GStartGame == StartGame("Solver") /\ NewGame

GSolverSelect(idx) == SolverSelect(idx) /\ SeenBudget /\ UNCHANGED answers

GSolverSubmitNone == SolverSubmitNone /\ SeenBudget /\ UNCHANGED answers

GSolverSubmit == SolverSubmit /\ SeenBudget /\ answers' = answers + 1

GSolverSkip == SolverSkip /\ SeenBudget /\ UNCHANGED answers

GRestartSolver == RestartSolver /\ NewGame

NextGame ==
    \/ \E w \in BudgetChoices : GRerender(w)
    \/ GResetGame
    \/ GStartGame
    \/ \E idx \in MatchButtons : GSolverSelect(idx)
    \/ GSolverSubmitNone
    \/ GSolverSubmit
    \/ GSolverSkip
    \/ GRestartSolver

SpecGame == Init /\ [][NextGame]_vars

\* --------------------------------------------------- the truthful player
\* A player who thinks of a number, sets the budget before the game, plays
\* the solver strategy, never skips, and answers every probe with its true
\* match count: the count of the probe that is on the page when the
\* match-count button is pressed.

\* The true match count of a probe.
TrueCount(guess_str) == common_digit_count(format_guess(secret), guess_str)

InitTruthful ==
    /\ InitSession
    /\ NoCall
    /\ secret \in Range(UNIQUE_POOL)
    /\ answers = 0
    /\ budget_hi = DefaultMaxTrials

TSetBudget(w) == stage = "intro" /\ Rerender(w) /\ SeenBudget /\ UNCHANGED answers

TStartGame == StartGame("Solver") /\ NewGame

TSolverSelect ==
    /\ ShowsGuess(SS)
    /\ SolverSelect(TrueCount(current_guess))
    /\ UNCHANGED history

TSolverSubmitNone == SolverSubmitNone /\ UNCHANGED history

TSolverSubmit == SolverSubmit /\ answers' = answers + 1 /\ UNCHANGED <<secret, budget_hi>>

TResetGame == ResetGame /\ NewGame

NextTruthful ==
    \/ \E w \in BudgetChoices : TSetBudget(w)
    \/ TStartGame
    \/ TSolverSelect
    \/ TSolverSubmitNone
    \/ TSolverSubmit
    \/ TResetGame

SpecTruthful == InitTruthful /\ [][NextTruthful]_vars


\* ------------------------------------------ filter_candidates_by_feedback
\* The function on its own: called once on a pool, a probe and a reported
\* match count.

\* Longest pool the function is called on.
MaxPoolLen == 3
\* The pools are lists of the first PoolSample numbers of UNIQUE_POOL.
PoolSample == 6

\* Lists of at most n elements of S.
SeqsUpTo(S, n) == UNION {[1..k -> S] : k \in 0..n}

InitFilter ==
    /\ InitSession
    /\ NoHistory
    /\ fn_pool \in SeqsUpTo(Range(SubSeq(UNIQUE_POOL, 1, Min(PoolSample, Len(UNIQUE_POOL)))), MaxPoolLen)
    /\ fn_probe \in {format_guess(n) : n \in Range(UNIQUE_POOL)}
    /\ fn_fb \in MatchButtons
    /\ fn_out = <<>>
    /\ fn_done = FALSE
    /\ NoChoose

CallFilter ==
    /\ ~ fn_done
    /\ fn_out' = filter_candidates_by_feedback(fn_pool, fn_probe, fn_fb)
    /\ fn_done' = TRUE
    /\ UNCHANGED <<fn_pool, fn_probe, fn_fb, session, history>>
    /\ UNCHANGED <<cb_candidates, cb_pool, cb_eval_pool, cb_out, cb_done>>

NextFilter == CallFilter

SpecFilter == InitFilter /\ [][NextFilter]_vars


\* ------------------------------------------------------ choose_best_guess
\* The function on its own: called once on a candidate list and a pool,
\* with the probes it evaluates written down.

\* The probes of the game as strings.
Probes == {format_guess(n) : n \in Range(UNIQUE_POOL)}

\* The pools one answer leaves of the list L.
Filtered(L) ==
    {filter_candidates_by_feedback(L, p, f) : p \in Probes, f \in MatchButtons}

\* The candidate lists the function is called on: no candidates, the full
\* pool, and the pools one answer leaves of it.
ChooseInputs == {<<>>, UNIQUE_POOL} \cup Filtered(UNIQUE_POOL)

\* The pools the function is called on with the candidates cands: the
\* candidates themselves (as the game does), and the first numbers of
\* UNIQUE_POOL, as many as are evaluated in full and one more.
ChoosePools(cands) ==
    {cands} \cup {SubSeq(UNIQUE_POOL, 1, Min(n, Len(UNIQUE_POOL))) :
                    n \in {SampleThreshold, SampleThreshold + 1}}

\* random.sample(pool, k): k elements at different positions, in any order.
Samples(pool, k) ==
    {[i \in 1..k |-> pool[f[i]]] :
        f \in {f \in [1..k -> 1..Len(pool)] : \A i, j \in 1..k : f[i] = f[j] => i = j}}

\* eval_pool: the pool itself, or a sample of it when it is large.
EvalPools(pool, sample_limit) ==
    IF Len(pool) <= SampleThreshold THEN {pool}
    ELSE Samples(pool, Min(sample_limit, Len(pool)))

\* What the function returns once eval_pool is fixed: the result of the
\* loop, or random.choice(candidates) when the loop found nothing.
choose_with(cands, eval_pool) ==
    LET best_guess == ScanPool(cands, eval_pool, 1, NoneInt, NoneInt)
    IN  IF best_guess = NoneInt THEN Range(cands) ELSE {best_guess}

InitChoose ==
    /\ InitSession
    /\ NoHistory
    /\ fn_pool = <<>>
    /\ fn_probe = NoneStr
    /\ fn_fb = 0
    /\ fn_out = <<>>
    /\ fn_done = FALSE
    /\ cb_candidates \in ChooseInputs
    /\ cb_pool \in ChoosePools(cb_candidates)
    /\ cb_eval_pool = <<>>
    /\ cb_out = NoneInt
    /\ cb_done = FALSE

CallChoose ==
    /\ ~ cb_done
    /\ cb_done' = TRUE
    /\ IF Len(cb_candidates) = 0
       THEN cb_eval_pool' = <<>> /\ cb_out' = NoneInt
       ELSE \E e \in EvalPools(cb_pool, SampleLimit) :
               /\ cb_eval_pool' = e
               /\ cb_out' \in choose_with(cb_candidates, e)
    /\ UNCHANGED <<cb_candidates, cb_pool, session, history>>
    /\ UNCHANGED <<fn_pool, fn_probe, fn_fb, fn_out, fn_done>>

NextChoose == CallChoose

SpecChoose == InitChoose /\ [][NextChoose]_vars


\* -------------------------------------------------------- ordering search
\* The ordering stage on lists of every length: the stage is entered on a
\* strictly ascending list, with the range set to the whole list.

\* Number of digits arranged to build the lists.
OrderDigits == 4
\* Longest list searched.
MaxListLen == 24
\* Comparisons followed in one search.
MaxComparisons == 8

\* The session state is the value s.
SessionIs(s) ==
    /\ stage = s.stage
    /\ max_trials = s.max_trials
    /\ trials = s.trials
    /\ tried = s.tried
    /\ current_guess = s.current_guess
    /\ recovered_guess = s.recovered_guess
    /\ candidates = s.candidates
    /\ lo = s.lo
    /\ hi = s.hi
    /\ logs = s.logs
    /\ rand_match_selected = s.rand_match_selected
    /\ det_match_selected = s.det_match_selected
    /\ digit_counts = s.digit_counts
    /\ det_digit = s.det_digit
    /\ final_answer = s.final_answer

\* The digits 0..OrderDigits-1 as a string.
OrderString == [k \in 1..OrderDigits |-> k - 1]

\* The ascending lists searched: the first n arrangements of OrderString.
OrderingLists ==
    LET full == generate_candidates_from_multiset(OrderString)
    IN  {SubSeq(full, 1, n) : n \in 1..Min(MaxListLen, Len(full))}

\* The state in which the ordering stage is entered on the list cands:
\* lo = 0, hi = len(candidates) - 1, stage = "ordering_stage".
ordering_entry(cands) ==
    [reset_state EXCEPT !.recovered_guess = OrderString,
                        !.candidates = cands,
                        !.lo = 0,
                        !.hi = Len(cands) - 1,
                        !.stage = "ordering_stage"]

\* The value on the page of the ordering stage: candidates[mid].
Shown == candidates[Mid(SS) + 1]

\* The player thinks of a member of the list and answers every shown value
\* faithfully; answers counts the comparisons.
InitSearch ==
    /\ \E c \in OrderingLists : SessionIs(ordering_entry(c))
    /\ NoCall
    /\ secret \in Range(candidates)
    /\ answers = 0
    /\ budget_hi = DefaultMaxTrials

Compared == answers' = answers + 1 /\ UNCHANGED <<secret, budget_hi>>

FOrderLt == answers < MaxComparisons /\ OrderLt /\ secret < Shown /\ Compared

FOrderEq == answers < MaxComparisons /\ OrderEq /\ secret = Shown /\ Compared

FOrderGt == answers < MaxComparisons /\ OrderGt /\ secret > Shown /\ Compared

NextSearch == FOrderLt \/ FOrderEq \/ FOrderGt

SpecSearch == InitSearch /\ [][NextSearch]_vars

\* The player goes on answering as long as a value is shown.
SpecSearchLive == SpecSearch /\ WF_vars(NextSearch)

\* The whole program, started in the ordering stage on each of the lists:
\* every answer can be given, faithful or not.
InitRange ==
    /\ \E c \in OrderingLists : SessionIs(ordering_entry(c))
    /\ NoHistory
    /\ NoCall

SpecRange == InitRange /\ [][Next]_vars


\* ----------------------------------------------------------------- claims

\* C1 (as claimed): in the solver stage the shown probe is frozen for the
\* whole turn: an event that is neither a submission with a match count
\* selected nor a skip (a match-count button, a submission with nothing
\* selected, a re-render of the page) leaves the current probe as it is.
C1_ProbeFrozen ==
    [][ ( /\ ShowsGuess(SS)
          /\ current_guess # NoneStr
          /\ \/ \E idx \in MatchButtons : SolverSelect(idx)
             \/ SolverSubmitNone
             \/ \E w \in BudgetChoices : Rerender(w) )
        => current_guess' = current_guess ]_vars

\* C2 (as claimed): while the player answers every probe with its true match
\* count, the secret stays in the candidate pool of digit discovery, and
\* the pool is never empty.
C2_SecretStaysInPool ==
    stage \in {"solver_stage", "failed_random"} =>
        /\ secret \in Range(candidates)
        /\ candidates # <<>>

\* The size of the multiset intersection of two digit strings: the sum over
\* the digit values of the smaller of the two numbers of occurrences.
MultisetMatch(a, b) ==
    LET occ(s, d) == Cardinality({i \in 1..Len(s) : s[i] = d})
        RECURSIVE sum(_)
        sum(d) == IF d < 0 THEN 0 ELSE Min(occ(a, d), occ(b, d)) + sum(d - 1)
    IN  sum(9)

\* The positions of the pool whose element has the reported match count.
KeptPositions ==
    {i \in 1..Len(fn_pool) : MultisetMatch(format_guess(fn_pool[i]), fn_probe) = fn_fb}

\* C3: filter_candidates_by_feedback returns exactly the elements of the
\* pool whose match count with the probe (the number of digit values in
\* both, whatever their positions) is the reported one, in their original
\* order, and leaves the pool as it was.
C3_FilterExact ==
    /\ [](fn_done =>
            LET pos == SortSet(KeptPositions)
            IN  fn_out = [j \in 1..Len(pos) |-> fn_pool[pos[j]]])
    /\ [][fn_pool' = fn_pool]_vars

\* C3, witness: a call that keeps an element sharing its digits with the
\* probe at other positions, and drops another one.
C3_Witness ==
    /\ fn_done
    /\ 0 < Len(fn_out)
    /\ Len(fn_out) < Len(fn_pool)
    /\ fn_fb > 0
    /\ \E j \in 1..Len(fn_out) :
          \A i \in 1..CodeLen : format_guess(fn_out[j])[i] # fn_probe[i]


\* The step is a submit that accepted a match count (in the games with
\* history no other step counts an answer).
AnswerAccepted == answers' = answers + 1

C5_SubmitRules ==
    /\ (AnswerAccepted /\ rand_match_selected < CodeLen /\ trials >= max_trials)
          => stage' = "failed_random"
    /\ (AnswerAccepted /\ rand_match_selected = CodeLen)
          => stage' = "ordering_stage"
    /\ (stage # "failed_random" /\ stage' = "failed_random")
          => /\ AnswerAccepted
             /\ rand_match_selected < CodeLen
             /\ trials' >= max_trials'

\* C5 (as claimed): one game accepts at most max_trials match counts, and
\* the submit handler follows the rules above.
C5_BudgetBoundsAnswers ==
    /\ [](answers <= max_trials)
    /\ [][C5_SubmitRules]_vars

\* C5 (amended): one game accepts at most as many match counts as the
\* largest budget that was in effect during the game, and the submit
\* handler follows the rules above.
C5_LargestBudgetBoundsAnswers ==
    /\ [](answers <= budget_hi)
    /\ [][C5_SubmitRules]_vars

\* C5, witness: a game that failed on the answer that used up its budget,
\* after more than one answer.
C5_Witness ==
    /\ stage = "failed_random"
    /\ answers = budget_hi
    /\ answers > 1

\* C6 (as claimed): a skip leaves the pool, the tried set, the stage and
\* the trial counter as they were.
C6_SkipCostsNothing ==
    [][SolverSkip =>
          /\ candidates' = candidates
          /\ tried' = tried
          /\ stage' = stage
          /\ trials' = trials]_vars

\* C7 (as claimed): after a skip with more than one candidate the probe
\* shown is another one than the probe that was skipped.
C7_SkipShowsAnotherProbe ==
    [][(SolverSkip /\ Len(candidates) > 1) => current_guess' # current_guess]_vars

\* The presence answers a truthful player gives for the number n.
Presence(n) ==
    [k \in 1..Base |-> IF (k - 1) \in CharSet(format_guess(n)) THEN 1 ELSE 0]

\* The digits of n in ascending order.
AscendingDigits(n) == SortSet(CharSet(format_guess(n)))

\* C8: when the answers recorded for the digits 0..Base-1 are the true ones
\* for a number n of distinct digits, then after the last answer exactly
\* CodeLen digits are flagged, the game has moved to the ordering stage
\* (or on to Done), and the recovered string is the digits of n, ascending.
C8_ProberExact ==
    \A n \in Range(UNIQUE_POOL) :
        (det_digit = Base /\ digit_counts = Presence(n)) =>
            /\ stage \in {"ordering_stage", "done"}
            /\ total_present(digit_counts) = CodeLen
            /\ recovered_guess = AscendingDigits(n)

\* C8, witness: the prober has just handed a truthfully answered number
\* with a leading zero and non-adjacent digits to the ordering stage.
C8_Witness ==
    /\ stage = "ordering_stage"
    /\ det_digit = Base
    /\ lo = 0
    /\ hi = Len(candidates) - 1
    /\ \E n \in Range(UNIQUE_POOL) :
          /\ digit_counts = Presence(n)
          /\ recovered_guess = <<0, 2>>

\* C9 (as claimed): whenever a presence query is on the page its index is
\* one of 0..Base-1.
C9_QueryIndexInRange ==
    stage = "det_query" => det_digit \in 0..(Base - 1)

\* C10 (as claimed): the ordering stage is entered from the prober only on
\* the answer to the last query, with exactly CodeLen of the digits
\* 0..Base-1 flagged; after a wrong total it is out of reach.
C10_WrongTotalNoOrdering ==
    [][(stage = "det_query" /\ stage' = "ordering_stage")
          => /\ det_digit = Base - 1
             /\ Len(digit_counts') = Base
             /\ total_present(digit_counts') = CodeLen]_vars


\* C11: with faithful answers the search on an ascending list that holds
\* the secret never empties its range, always ends in Done, and the final
\* answer is the secret.
C11_SearchFindsSecret ==
    /\ [](stage = "ordering_stage" => lo <= hi)
    /\ [](stage = "done" => final_answer = secret)
    /\ <>(stage = "done")

\* C11, witness: a search that ended in Done on the secret after narrowing
\* the range from both sides.
C11_Witness ==
    /\ stage = "done"
    /\ final_answer = secret
    /\ lo > 0
    /\ hi < Len(candidates) - 1

\* floor(log2(n)) and ceil(log2(n)) for n >= 1.
RECURSIVE FloorLog2(_)
FloorLog2(n) == IF n <= 1 THEN 0 ELSE 1 + FloorLog2(n \div 2)

CeilLog2(n) == IF n <= 1 THEN 0 ELSE 1 + FloorLog2(n - 1)

RangeEmpty == stage = "ordering_stage" /\ lo > hi

\* C13: once the range is empty no comparison is accepted (range, list and
\* final answer stay as they are), the stage changes only by a reset, to
\* Intro; and every '<' or '>' answer makes the range smaller, so the
\* empty range or Done is reached after finitely many answers.
C13_EmptyRangeIsFinal ==
    [][ /\ RangeEmpty =>
            \/ /\ stage' = stage
               /\ lo' = lo
               /\ hi' = hi
               /\ candidates' = candidates
               /\ final_answer' = final_answer
            \/ ResetGame /\ stage' = "intro"
        /\ (stage = "ordering_stage" /\ stage' = "ordering_stage"
               /\ <<lo', hi'>> # <<lo, hi>>)
            => hi' - lo' < hi - lo ]_vars

\* C13, witness: the range of a list of several values was emptied by
\* '>' answers followed by a '<' answer.
C13_Witness ==
    /\ RangeEmpty
    /\ Len(candidates) > 2
    /\ lo > 0
    /\ hi < Len(candidates) - 1

\* The step is the faithful answer, for the list element at index i.
FaithfulFor(i) ==
    /\ stage = "ordering_stage"
    /\ stage' = "ordering_stage"
    /\ \/ hi' < hi /\ lo' = lo /\ candidates[i + 1] < Shown
       \/ lo' > lo /\ hi' = hi /\ candidates[i + 1] > Shown

\* C20: the stage is entered with lo = 0 and hi = len-1; in the ordering
\* stage 0 <= lo, hi <= len-1 and lo <= hi+1; a '<' or '>' answer makes
\* hi-lo smaller and never widens the range; and a faithful answer keeps
\* the index of the secret within lo..hi.
C20_RangeWithinList ==
    /\ [](stage = "ordering_stage" =>
            /\ 0 <= lo
            /\ hi <= Len(candidates) - 1
            /\ lo <= hi + 1
            /\ (lo <= hi => Mid(SS) + 1 \in 1..Len(candidates)))
    /\ [][ /\ (stage # "ordering_stage" /\ stage' = "ordering_stage")
               => lo' = 0 /\ hi' = Len(candidates') - 1
           /\ (stage = "ordering_stage" /\ stage' = "ordering_stage"
                  /\ <<lo', hi'>> # <<lo, hi>>)
               => /\ hi' - lo' < hi - lo
                  /\ lo <= lo'
                  /\ hi' <= hi
           /\ \A i \in lo..hi : FaithfulFor(i) => i \in lo'..hi' ]_vars

\* C20, witness: a range narrowed from both sides that still shows a value.
C20_Witness ==
    /\ stage = "ordering_stage"
    /\ 0 < lo
    /\ lo < hi
    /\ hi < Len(candidates) - 1


\* The pool of digit discovery is empty.
PoolEmpty == candidates = <<>> /\ stage \in {"solver_stage", "failed_random"}

\* C14 (as claimed): once a submitted match count has emptied the pool, no
\* probe is shown and no answer accepted (stage, pool, probe and trial
\* counter stay as they are), and the stage changes only by a restart, to
\* Intro.
C14_EmptyPoolIsFinal ==
    [][PoolEmpty =>
          \/ /\ stage' = stage
             /\ candidates' = candidates
             /\ current_guess' = current_guess
             /\ trials' = trials
             /\ tried' = tried
          \/ stage' = "intro"]_vars

\* The rows of the transition table other than the prober's last one.
C15_Rows ==
    /\ stage = "intro" =>
          stage' \in {"intro", "solver_stage", "deterministic_stage"}
    /\ stage = "solver_stage" =>
          /\ stage' \in {"solver_stage", "ordering_stage", "failed_random", "intro"}
          /\ stage' = "ordering_stage" => rand_match_selected = CodeLen
          /\ stage' = "failed_random" =>
                rand_match_selected \in 0..(CodeLen - 1) /\ trials' >= max_trials'
    /\ stage = "failed_random" =>
          /\ stage' \in {"failed_random", "deterministic_stage", "intro"}
          /\ stage' = "deterministic_stage" => det_digit' = 0 /\ digit_counts' = <<>>
    /\ stage = "deterministic_stage" =>
          /\ stage' \in {"deterministic_stage", "det_query", "intro"}
          /\ stage' = "det_query" =>
                /\ det_digit' = 0
                /\ digit_counts' = [k \in 1..Base |-> NoneInt]
    /\ stage = "det_query" =>
          stage' \in {"det_query", "ordering_stage", "intro"}
    /\ stage = "ordering_stage" =>
          /\ stage' \in {"ordering_stage", "done", "intro"}
          /\ stage' = "done" => lo <= hi /\ final_answer' = Shown
    /\ stage = "done" => stage' \in {"done", "intro"}
    /\ ResetGame => stage' = "intro"

\* The prober's last row: to the ordering stage on the tenth answer.
C15_ProberRow ==
    (stage = "det_query" /\ stage' = "ordering_stage")
        => det_digit = Base - 1 /\ det_digit' = Base

\* The prober's last row, read as: not before the tenth answer.
C15_ProberRowAtLeast ==
    (stage = "det_query" /\ stage' = "ordering_stage")
        => det_digit >= Base - 1 /\ det_digit' = det_digit + 1

\* In Done a final answer is set, an element of the list.
C15_DoneHasAnswer ==
    stage = "done" =>
        final_answer # NoneInt /\ final_answer \in Range(candidates)

\* C15 (as claimed): every change of stage is a row of the transition
\* table, the prober moving to the ordering stage on its tenth answer, and
\* in Done a final answer is set that is an element of the list.
C15_StageTable ==
    /\ [][C15_Rows /\ C15_ProberRow]_vars
    /\ []C15_DoneHasAnswer

\* The table with the prober's row read as "not before the tenth answer".
C15_StageTableAtLeastTen ==
    /\ [][C15_Rows /\ C15_ProberRowAtLeast]_vars
    /\ []C15_DoneHasAnswer

\* The step is a reset: the sidebar's, the restart after Failed, or the
\* replay after Done.
ResetStep == ResetGame \/ RestartSolver \/ PlayAgain

\* The session state is the one a reset leaves, for the budget in the input.
IsResetState == SS = [reset_state EXCEPT !.max_trials = max_trials]

\* C16: a reset from any state yields the initial game state: stage Intro,
\* no trials, nothing tried, no probe, no recovered digits, the full pool,
\* no selection pending, prober step 0 with no answers, lo = 0, hi = -1,
\* no final answer, empty log; a reset of that state changes nothing.
C16_ResetClearsGame ==
    [][ /\ ResetStep =>
            /\ stage' = "intro"
            /\ trials' = 0
            /\ tried' = {}
            /\ current_guess' = NoneStr
            /\ recovered_guess' = NoneStr
            /\ candidates' = UNIQUE_POOL
            /\ rand_match_selected' = NoneInt
            /\ det_match_selected' = NoneInt
            /\ det_digit' = 0
            /\ digit_counts' = <<>>
            /\ lo' = 0
            /\ hi' = -1
            /\ final_answer' = NoneInt
            /\ logs' = <<>>
        /\ (ResetGame /\ IsResetState) => session' = session ]_vars

\* C16, witness: a finished game that went through digit discovery, the
\* prober and the ordering search, every part of the state in use, from
\* which the resets are taken.
C16_Witness ==
    /\ stage = "done"
    /\ trials > 0
    /\ tried # {}
    /\ current_guess # NoneStr
    /\ recovered_guess # NoneStr
    /\ candidates # UNIQUE_POOL
    /\ digit_counts # <<>>
    /\ det_digit > 0
    /\ lo > 0
    /\ final_answer # NoneInt
    /\ logs # <<>>

\* C17 (as claimed): a submission with nothing selected changes neither
\* the stage, the trial counter, the pool, the probe, the tried set, the
\* prober step nor the recorded presence answers.
C17_EmptySubmitChangesNothing ==
    [][(SolverSubmitNone \/ DetSubmitNone) =>
          UNCHANGED <<stage, trials, candidates, current_guess, tried,
                      det_digit, digit_counts>>]_vars

\* The prober's half of C17.
C17_ProberHalf ==
    [][DetSubmitNone =>
          UNCHANGED <<stage, trials, candidates, current_guess, tried,
                      det_digit, digit_counts>>]_vars


\* The score of probe g against the candidates, from its definition: the
\* sum over the match counts 0..CodeLen of the squared number of candidates
\* with that match count.
BucketScore(g, cands) ==
    LET size(m) == Cardinality({i \in 1..Len(cands) :
                       MultisetMatch(format_guess(cands[i]), format_guess(g)) = m})
        RECURSIVE sum(_)
        sum(m) == IF m < 0 THEN 0 ELSE size(m) * size(m) + sum(m - 1)
    IN  sum(CodeLen)

\* C18: choose_best_guess returns None exactly when there are no
\* candidates; otherwise it evaluates the whole pool when the pool has at
\* most SampleThreshold elements (else a sample of different elements of
\* it), and returns the first of the evaluated probes whose score is the
\* least among them.  Before the call: the results over all the samples
\* are the values choose_best_guess can take in the game.
C18_FirstOfLeastScore ==
    /\ cb_done =>
        /\ (cb_out = NoneInt) <=> (cb_candidates = <<>>)
        /\ cb_candidates # <<>> =>
            /\ Len(cb_pool) <= SampleThreshold => cb_eval_pool = cb_pool
            /\ Len(cb_pool) > SampleThreshold =>
                 /\ Len(cb_eval_pool) = Min(SampleLimit, Len(cb_pool))
                 /\ Range(cb_eval_pool) \subseteq Range(cb_pool)
                 /\ Cardinality(Range(cb_eval_pool)) = Len(cb_eval_pool)
            /\ cb_eval_pool # <<>> =>
                 \E scored \in {{<<j, BucketScore(cb_eval_pool[j], cb_candidates)>> :
                                    j \in 1..Len(cb_eval_pool)}} :
                    \E p \in scored :
                       /\ cb_eval_pool[p[1]] = cb_out
                       /\ \A q \in scored :
                             /\ q[2] >= p[2]
                             /\ q[1] < p[1] => q[2] > p[2]
    /\ (~ cb_done /\ cb_candidates # <<>>) =>
          UNION {choose_with(cb_candidates, e) : e \in EvalPools(cb_pool, SampleLimit)}
              = choose_best_guess(cb_candidates, cb_pool, SampleLimit)

\* C18, witness: a call on a sampled pool that returned a probe which is
\* not the first one evaluated and ties with a later one.
C18_Witness ==
    /\ cb_done
    /\ Len(cb_pool) > SampleThreshold
    /\ cb_out # NoneInt
    /\ cb_eval_pool[1] # cb_out
    /\ \E j \in 2..Len(cb_eval_pool) :
          /\ cb_eval_pool[j] # cb_out
          /\ cb_eval_pool[j - 1] = cb_out
          /\ BucketScore(cb_eval_pool[j], cb_candidates)
                = BucketScore(cb_out, cb_candidates)


\* A probe is on the page of digit discovery.
ProbeShown == ShowsGuess(SS) /\ current_guess # NoneStr

\* C19: the probe shown in digit discovery is a member of the pool (the
\* sole member when the pool has one), and no tried number is in the pool;
\* an accepted answer below CodeLen makes the pool smaller, removes the
\* answered probe from it, and the answered probe was not answered before
\* in this game.
C19_ProbeFromPool ==
    /\ [](ProbeShown =>
            /\ ToInt(current_guess) \in Range(candidates)
            /\ Len(candidates) = 1 => ToInt(current_guess) = candidates[1])
    /\ [](stage \in {"solver_stage", "failed_random"} =>
            tried \cap Range(candidates) = {})
    /\ [][(AnswerAccepted /\ stage' # "ordering_stage") =>
            /\ Len(candidates') < Len(candidates)
            /\ Cardinality(tried') = Cardinality(tried) + 1
            /\ (tried' \ tried) \subseteq Range(candidates)
            /\ (tried' \ tried) \cap Range(candidates') = {}]_vars

\* C19, witness: a second probe is shown after an accepted answer below
\* CodeLen has made the pool smaller.
C19_Witness ==
    /\ ProbeShown
    /\ answers > 0
    /\ tried # {}
    /\ Len(candidates) < Len(UNIQUE_POOL)
    /\ ToInt(current_guess) \notin tried


\* The numbers formed by rearranging the digits of n.
Rearranged(n) == {ToInt(p) : p \in Perms(format_guess(n))}

\* k! for k >= 0.
RECURSIVE Factorial(_)
Factorial(k) == IF k <= 0 THEN 1 ELSE k * Factorial(k - 1)

\* C21: in digit discovery the pool holds, with each number, every
\* rearrangement of its digits; its size is a multiple of CodeLen! and
\* never one; and apart from a reset digit discovery is left only by a
\* match count of CodeLen (to the ordering stage) or by the exhausted
\* budget (to Failed), an empty pool leaving it where it is.
C21_PoolClosedUnderRearrangement ==
    /\ [](stage = "solver_stage" =>
            /\ \A n \in Range(candidates) : Rearranged(n) \subseteq Range(candidates)
            /\ Len(candidates) % Factorial(CodeLen) = 0
            /\ Len(candidates) # 1)
    /\ [][(stage = "solver_stage" /\ stage' # "solver_stage") =>
            \/ stage' = "ordering_stage" /\ rand_match_selected = CodeLen
            \/ stage' = "failed_random" /\ trials' >= max_trials'
            \/ stage' = "intro" /\ ResetGame]_vars

\* C21, witness: a probe is shown on a pool that answers have made smaller
\* and that still holds several numbers.
C21_Witness ==
    /\ ProbeShown
    /\ tried # {}
    /\ Len(candidates) > 1
    /\ Len(candidates) < Len(UNIQUE_POOL)

====
